---- MODULE Spec2Model ----
(***************************************************************************)
(* Model of backend/ai_generator.py: AIGenerator.generate_response, the    *)
(* multi-round tool-calling loop, with its helpers _execute_single_round,  *)
(* _create_error_response, _prepare_next_round,                            *)
(* _execute_tools_with_error_handling and _extract_final_response.         *)
(*                                                                         *)
(* A Python str is modelled as a sequence of tokens; the token " " is the  *)
(* whitespace character, so that str.strip() and " ".join() are computed,  *)
(* not assumed.  The collaborators (client.messages.create and             *)
(* tool_manager.execute_tool) are the environment: what they return or     *)
(* raise is chosen with \E from the sets below.                            *)
(***************************************************************************)
EXTENDS Integers, Sequences, FiniteSets

\* ---------------------------------------------------------------- bounds
MaxRounds == 2      \* largest max_rounds argument explored
MaxBlocks == 3      \* most content blocks the service returns over one exchange

\* ------------------------------------------------------- Python strings
WS == " "

RECURSIVE LStrip(_)
LStrip(s) == IF s = <<>> THEN <<>>
             ELSE IF Head(s) = WS THEN LStrip(Tail(s)) ELSE s

RECURSIVE RStrip(_)
RStrip(s) == IF s = <<>> THEN <<>>
             ELSE IF s[Len(s)] = WS THEN RStrip(SubSeq(s, 1, Len(s) - 1)) ELSE s

\* mutant of Strip: only the left side is stripped
StripLeftOnly(s) == LStrip(s)

\* str.strip()
Strip(s) == RStrip(LStrip(s))

\* " ".join(parts)
RECURSIVE Join(_)
Join(parts) == IF parts = <<>> THEN <<>>
               ELSE IF Len(parts) = 1 THEN parts[1]
               ELSE parts[1] \o <<WS>> \o Join(Tail(parts))

\* the two fixed answers of generate_response
NoToolManagerMessage ==
    <<"I cannot execute tools without a tool manager. Please try rephrasing your question.">>
FallbackMessage ==
    <<"I wasn't able to generate a proper response. Please try rephrasing your question.">>

\* mutant of ToolFailedText: the cause is left out
ToolFailedTextNoCause(e) == <<"Tool execution failed:", WS>>

\* f"API call failed: {str(e)}" and f"Tool execution failed: {str(e)}"
ApiFailedText(e) == <<"API call failed:", WS>> \o e
ToolFailedText(e) == <<"Tool execution failed:", WS>> \o e

\* ------------------------------------------------ responses of the model
TextBlock(t) == [type |-> "text", text |-> t, id |-> "", name |-> "", input |-> ""]
ToolUseBlock(i, n, a) == [type |-> "tool_use", text |-> <<>>, id |-> i, name |-> n, input |-> a]

Texts == { <<>>, <<WS>>, <<WS, "a", WS>>, <<"b">> }
TextBlocks == { TextBlock(t) : t \in Texts }
ToolUseBlocks == { ToolUseBlock("tool_1", "search_course_content", "query"),
                   ToolUseBlock("tool_2", "get_course_outline", "course_name") }
Blocks == TextBlocks \cup ToolUseBlocks

\* ids are unique within one response
UniqueIds(c) == \A i, j \in 1..Len(c) :
                   (c[i].type = "tool_use" /\ c[j].type = "tool_use" /\ i # j)
                       => c[i].id # c[j].id

\* the contents of at most n blocks
ContentsUpTo(n) == { c \in UNION { [1..k -> Blocks] : k \in 0..n } : UniqueIds(c) }

StopReasons == { "end_turn", "tool_use", "max_tokens" }

\* has_content = FALSE: the response's content is None
Response(s, c) == [stop_reason |-> s, has_content |-> TRUE, content |-> c]
ResponseNoContent(s) == [stop_reason |-> s, has_content |-> FALSE, content |-> <<>>]
ResponsesUpTo(n) == { Response(s, c) : s \in StopReasons, c \in ContentsUpTo(n) }
                       \cup { ResponseNoContent(s) : s \in StopReasons }

\* response = None, before the first round
NoneResponse == [stop_reason |-> "None", has_content |-> FALSE, content |-> <<>>]

\* what the service raises, what a tool returns or raises
ErrorTexts == { <<>>, <<"boom">> }
\* is_str: whether the returned value is a str (an exception's str(e) always is)
ToolOutcomes == { [raised |-> FALSE, value |-> <<"chunk">>, is_str |-> TRUE],
                  [raised |-> FALSE, value |-> <<"None">>, is_str |-> FALSE],
                  [raised |-> TRUE, value |-> <<"boom">>, is_str |-> TRUE] }

\* ---------------------------------------------------------------- messages
UserQuery(q) == [role |-> "user", kind |-> "query", text |-> q,
                 has_content |-> TRUE, blocks |-> <<>>, results |-> <<>>]
AssistantTurn(r) == [role |-> "assistant", kind |-> "response", text |-> <<>>,
                     has_content |-> r.has_content, blocks |-> r.content, results |-> <<>>]
ToolResultTurn(rs) == [role |-> "user", kind |-> "tool_results", text |-> <<>>,
                       has_content |-> TRUE, blocks |-> <<>>, results |-> rs]

\* the dict appended to tool_results: the returned value as it is on the try
\* path, the f-string on the except path
ToolResult(b, o) == [type |-> "tool_result", tool_use_id |-> b.id,
                     content |-> IF o.raised THEN ToolFailedText(o.value) ELSE o.value,
                     content_is_str |-> IF o.raised THEN TRUE ELSE o.is_str]

\* try: execute_tool(...) except Exception: the outcomes the handler catches
ExceptCatchesNothing(o) == FALSE
ExceptCatches(o) == o.raised

\* mutant of AppendResult: a failed tool call leaves no result
AppendResultDropFailed(results, b, o) ==
    IF o.raised THEN results ELSE Append(results, ToolResult(b, o))

\* tool_results.append({...}) on the try path and on the except path
AppendResult(results, b, o) == Append(results, ToolResult(b, o))

Query == <<"q">>

\* the conversation_history argument: None, an empty or a non-empty string
NoHistory == [is_none |-> TRUE, text |-> <<>>]
HistoryArgs == { NoHistory,
                 [is_none |-> FALSE, text |-> <<>>],
                 [is_none |-> FALSE, text |-> <<WS, "User: hi", WS>>] }

\* the tools argument: None, an empty list or a list of tool definitions
ToolDefinitions == [is_none |-> FALSE,
                    list |-> <<"search_course_content", "get_course_outline">>]
ToolsArgs == { [is_none |-> TRUE, list |-> <<>>],
               [is_none |-> FALSE, list |-> <<>>],
               ToolDefinitions }

\* ------------------------------------------------------------------- state
VARIABLES
    max_rounds,     \* argument of generate_response
    tool_manager,   \* TRUE iff a tool manager was passed
    pc,             \* "round_start", "execute_tools" or "done"
    tools,          \* argument tools of generate_response
    conversation_history,  \* argument conversation_history
    query,          \* argument query
    round_num,      \* loop variable of generate_response
    lists,          \* the message list objects created so far, by identity
    messages_ref,   \* the list object the local variable messages is bound to
    next_ref,       \* the list object next_messages is bound to (0: none)
    response,       \* local variable response
    block_idx,      \* position of the loop over response.content
    tool_results,   \* local of _execute_tools_with_error_handling
    outcome,        \* how generate_response ended: return value or raise
    requests,       \* log: the messages argument of every messages.create call
    calls,          \* log: "returned" / "raised" for every messages.create call
    responses,      \* log: the response of every round, as the loop sees it
    executions,     \* log: every tool_manager.execute_tool call
    round_args,     \* log: round_num and the messages object of every round
    api_params,     \* log: system, tools, tool_choice of every messages.create call
    events,         \* log: service calls and tool executions in the order made
    cancelled,      \* a cancellation signal raised by the caller's side
    parked,         \* the frame of a second invocation that is not running
    http            \* log: the requests the test API application has handled

vars == << max_rounds, tool_manager, tools, conversation_history, query, pc,
           round_num, lists, messages_ref, next_ref, response, block_idx,
           tool_results, outcome, requests, calls, responses, executions,
           round_args, api_params, events, cancelled, parked, http >>

\* the contents of the local variables messages and next_messages
messages == lists[messages_ref]
next_messages == IF next_ref = 0 THEN <<>> ELSE lists[next_ref]

NoOutcome == [kind |-> "none", value |-> <<>>]
Return(v) == [kind |-> "return", value |-> v]
Raise(v) == [kind |-> "raise", value |-> <<v>>]

\* the state at the start of generate_response, tools drawn from tools_args
\* and conversation_history from histories
InitWith(tools_args, histories) ==
    /\ max_rounds \in -1..MaxRounds
    /\ tool_manager \in BOOLEAN
    /\ tools \in tools_args
    /\ conversation_history \in histories
    /\ query = Query
    /\ cancelled = FALSE
    /\ parked = <<>>
    /\ http = <<>>
    /\ pc = "round_start"
    /\ round_num = 1
    /\ lists = << << UserQuery(Query) >> >>
    /\ messages_ref = 1
    /\ next_ref = 0
    /\ response = NoneResponse
    /\ block_idx = 0
    /\ tool_results = <<>>
    /\ outcome = NoOutcome
    /\ requests = <<>>
    /\ calls = <<>>
    /\ responses = <<>>
    /\ executions = <<>>
    /\ round_args = <<>>
    /\ api_params = <<>>
    /\ events = <<>>

\* the tool definitions and no conversation history are passed
Init == InitWith({ToolDefinitions}, {NoHistory})

\* tools is None, empty or the tool definitions
InitTools == InitWith(ToolsArgs, {NoHistory})

\* conversation_history is None, empty or a non-empty string
InitHistory == InitWith({ToolDefinitions}, HistoryArgs)

\* ------------------------------------------------- _extract_final_response
\* hasattr(block, "text"): only text blocks carry the attribute
HasText(b) == b.type = "text"

\* whitespace-only blocks are stripped and kept
RECURSIVE StrippedTextBlocksKeepBlank(_)
StrippedTextBlocksKeepBlank(c) ==
    IF c = <<>> THEN <<>>
    ELSE IF HasText(Head(c)) /\ Head(c).text # <<>>
         THEN <<Strip(Head(c).text)>> \o StrippedTextBlocksKeepBlank(Tail(c))
         ELSE StrippedTextBlocksKeepBlank(Tail(c))

\* the list text_blocks built by the loop of _extract_final_response
RECURSIVE StrippedTextBlocks(_)
StrippedTextBlocks(c) ==
    IF c = <<>> THEN <<>>
    ELSE IF HasText(Head(c)) /\ Head(c).text # <<>> /\ Strip(Head(c).text) # <<>>
         THEN <<Strip(Head(c).text)>> \o StrippedTextBlocks(Tail(c))
         ELSE StrippedTextBlocks(Tail(c))

\* the join is returned even when text_blocks is empty
ExtractFinalResponseEmptyJoin(r) ==
    IF r.has_content /\ r.content # <<>>
    THEN Join(StrippedTextBlocks(r.content))
    ELSE FallbackMessage

ExtractFinalResponse(r) ==
    IF r.has_content /\ r.content # <<>> /\ StrippedTextBlocks(r.content) # <<>>
    THEN Join(StrippedTextBlocks(r.content))
    ELSE FallbackMessage

\* --------------------------------------------------- _create_error_response
\* mutant of CreateErrorResponse: the synthesized response asks for tools
CreateErrorResponseToolUse(error_message) ==
    Response("tool_use", << TextBlock(error_message) >>)

CreateErrorResponse(error_message) ==
    Response("end_turn", << TextBlock(error_message) >>)

\* ---------------------------------------- _build_system_content, round context
SystemPrompt == <<"SYSTEM_PROMPT">>

\* the history is left out
BuildSystemContentNoHistory(history) == SystemPrompt

\* _build_system_content: if conversation_history: the prompt, the header
\* and the history
BuildSystemContent(history) ==
    IF ~history.is_none /\ history.text # <<>>
    THEN SystemPrompt \o <<"\n\nPrevious conversation:\n">> \o history.text
    ELSE SystemPrompt

\* _add_round_context with the final-round sentence in every round
AddRoundContextAlwaysFinal(system_content, rn, mr) ==
    [ content |-> system_content,
      annotated |-> mr > 1,
      round |-> IF mr > 1 THEN rn ELSE 0,
      of |-> IF mr > 1 THEN mr ELSE 0,
      final |-> mr > 1 ]

\* _add_round_context: the context note is appended when max_rounds > 1, with
\* the final-round sentence when round_num == max_rounds
AddRoundContext(system_content, rn, mr) ==
    [ content |-> system_content,
      annotated |-> mr > 1,
      round |-> IF mr > 1 THEN rn ELSE 0,
      of |-> IF mr > 1 THEN mr ELSE 0,
      final |-> mr > 1 /\ rn = mr ]

\* if tools:
Truthy(tls) == ~tls.is_none /\ tls.list # <<>>

\* ApiParams without the tools in the last round
ApiParamsNoToolsInFinalRound(system_content, tls, rn, mr) ==
    [ system |-> AddRoundContext(system_content, rn, mr),
      has_tools |-> Truthy(tls) /\ rn < mr,
      tools |-> IF Truthy(tls) /\ rn < mr THEN tls.list ELSE <<>>,
      tool_choice |-> IF Truthy(tls) /\ rn < mr THEN "auto" ELSE "" ]

\* api_params of _execute_single_round, the messages apart
ApiParams(system_content, tls, rn, mr) ==
    [ system |-> AddRoundContext(system_content, rn, mr),
      has_tools |-> Truthy(tls),
      tools |-> IF Truthy(tls) THEN tls.list ELSE <<>>,
      tool_choice |-> IF Truthy(tls) THEN "auto" ELSE "" ]

\* ------------------------------------------------------------ list objects
\* next_messages = messages: the same list object under another name
ListAlias(heap, ref) == [heap |-> heap, ref |-> ref]

\* messages.copy(): a new list object with the same entries
ListCopy(heap, ref) == [heap |-> Append(heap, heap[ref]), ref |-> Len(heap) + 1]

\* ------------------------------------------------------- generate_response
\* the upper end of the range is taken in
InRangeInclusiveUpper(rn, mr) == rn >= 1 /\ rn <= mr + 1

\* for round_num in range(1, max_rounds + 1)
InRange(rn, mr) == rn >= 1 /\ rn < mr + 1

NextRoundStuck(rn) == rn
NextRoundSkips(rn) == rn + 2
\* the step of the for statement: the next value of range(1, max_rounds + 1)
NextRound(rn) == rn + 1

\* mutants of Branch: the final round's tools are skipped; the stop_reason is
\* not looked at; the missing tool manager is not reported
BranchSkipFinalTools(r, tm, rn, mr) ==
    IF r.stop_reason = "tool_use" /\ tm /\ rn < mr
    THEN "prepare_next_round"
    ELSE IF r.stop_reason = "tool_use" /\ ~tm
         THEN "no_tool_manager"
         ELSE "extract"
BranchIgnoreStopReason(r, tm, rn, mr) ==
    IF tm
    THEN IF rn < mr THEN "prepare_next_round" ELSE "final_tools"
    ELSE IF r.stop_reason = "tool_use" /\ ~tm
         THEN "no_tool_manager"
         ELSE "extract"
BranchNoManagerExtract(r, tm, rn, mr) ==
    IF r.stop_reason = "tool_use" /\ tm
    THEN IF rn < mr THEN "prepare_next_round" ELSE "final_tools"
    ELSE "extract"
\* a tool_use block in the content counts as a request for tools
BranchOnToolUseBlock(r, tm, rn, mr) ==
    IF (r.stop_reason = "tool_use" \/ \E j \in 1..Len(r.content) : r.content[j].type = "tool_use") /\ tm
    THEN IF rn < mr THEN "prepare_next_round" ELSE "final_tools"
    ELSE IF r.stop_reason = "tool_use" /\ ~tm
         THEN "no_tool_manager"
         ELSE "extract"
\* the if / elif / else of the loop body
Branch(r, tm, rn, mr) ==
    IF r.stop_reason = "tool_use" /\ tm
    THEN IF rn < mr THEN "prepare_next_round" ELSE "final_tools"
    ELSE IF r.stop_reason = "tool_use" /\ ~tm
         THEN "no_tool_manager"
         ELSE "extract"

\* mutant of NextToolUse: the loop stops after the first tool_use block
NextToolUseOnlyFirst(c, i) ==
    IF i = 1 /\ \E j \in 1..Len(c) : c[j].type = "tool_use"
    THEN CHOOSE j \in 1..Len(c) :
            /\ c[j].type = "tool_use"
            /\ \A k \in 1..(j - 1) : c[k].type # "tool_use"
    ELSE 0

\* the loop stays on the block it has just handled
NextToolUseRepeats(c, i) ==
    IF i > 1 THEN i - 1 ELSE NextToolUseOnlyFirst(c, i)

\* least index j >= i of a tool_use block of c, 0 when there is none:
\* the blocks the loop of _execute_tools_with_error_handling acts on
NextToolUse(c, i) ==
    IF \E j \in i..Len(c) : c[j].type = "tool_use"
    THEN CHOOSE j \in i..Len(c) :
            /\ c[j].type = "tool_use"
            /\ \A k \in i..(j - 1) : c[k].type # "tool_use"
    ELSE 0

\* mutant of WithAssistantTurn: the assistant turn is not appended
WithoutAssistantTurn(msgs, r) == msgs

\* next_messages after messages.copy() and the append of the assistant turn
WithAssistantTurn(msgs, r) == Append(msgs, AssistantTurn(r))

\* the tool results are not appended
WithToolResultsNone(nm, results) == nm

\* next_messages after "if tool_results: next_messages.append(...)"
WithToolResults(nm, results) ==
    IF results # <<>> THEN Append(nm, ToolResultTurn(results)) ELSE nm

\* generate_response ends: return v
Finish(o) ==
    /\ pc' = "done"
    /\ outcome' = o
    /\ block_idx' = 0
    /\ tool_results' = <<>>
    /\ next_ref' = 0
    /\ UNCHANGED << round_num, messages_ref >>

\* the first tool result is returned in place of the response's text
FinalRoundAnswerFromResults(r, results) ==
    IF results # <<>> THEN results[1].content ELSE ExtractFinalResponse(r)

\* lines 94-95: the value of _execute_tools_with_error_handling is dropped
\* and the text of the response is returned
FinalRoundAnswer(r, results) == ExtractFinalResponse(r)

\* _execute_tools_with_error_handling has returned results for response r;
\* heap[ref] is the list object next_messages (ref = 0 in the last round)
ToolsDone(r, heap, ref, results) ==
    IF Branch(r, tool_manager, round_num, max_rounds) = "prepare_next_round"
    THEN \* _prepare_next_round appends to next_messages and returns it;
         \* messages is bound to it and the loop continues
         /\ lists' = [heap EXCEPT ![ref] = WithToolResults(heap[ref], results)]
         /\ messages_ref' = ref
         /\ next_ref' = 0
         /\ round_num' = NextRound(round_num)
         /\ block_idx' = 0
         /\ tool_results' = <<>>
         /\ IF InRange(NextRound(round_num), max_rounds)
            THEN pc' = "round_start" /\ outcome' = outcome
            ELSE \* loop exhausted: return self._extract_final_response(response)
                 pc' = "done" /\ outcome' = Return(ExtractFinalResponse(r))
    ELSE \* line 95: results dropped, return the text of this response
         /\ lists' = heap
         /\ Finish(Return(FinalRoundAnswer(r, results)))

\* the loop body from the response r of _execute_single_round on
HandleResponse(r) ==
    /\ response' = r
    /\ responses' = Append(responses, r)
    /\ UNCHANGED << http, max_rounds, tool_manager, tools, conversation_history, query,
                    cancelled, parked, executions >>
    /\ LET br == Branch(r, tool_manager, round_num, max_rounds)
           \* next_messages = messages.copy(); next_messages.append(assistant turn)
           cp == ListCopy(lists, messages_ref)
           heap == IF br = "prepare_next_round"
                   THEN [cp.heap EXCEPT ![cp.ref] = WithAssistantTurn(cp.heap[cp.ref], r)]
                   ELSE lists
           ref == IF br = "prepare_next_round" THEN cp.ref ELSE 0
       IN  CASE br = "no_tool_manager" ->
                  lists' = lists /\ Finish(Return(NoToolManagerMessage))
             [] br = "extract" ->
                  lists' = lists /\ Finish(Return(ExtractFinalResponse(r)))
             [] OTHER ->
                  IF ~r.has_content
                  THEN \* for content_block in None
                       lists' = lists /\ Finish(Raise("TypeError"))
                  ELSE IF NextToolUse(r.content, 1) = 0
                  THEN ToolsDone(r, heap, ref, <<>>)
                  ELSE /\ pc' = "execute_tools"
                       /\ block_idx' = NextToolUse(r.content, 1)
                       /\ tool_results' = <<>>
                       /\ lists' = heap
                       /\ next_ref' = ref
                       /\ UNCHANGED << round_num, messages_ref, outcome >>

\* content blocks received over the exchange so far
RECURSIVE BlocksIn(_)
BlocksIn(rs) == IF rs = <<>> THEN 0 ELSE Len(Head(rs).content) + BlocksIn(Tail(rs))

\* _execute_single_round builds api_params (messages.copy() included) and
\* calls client.messages.create
SendRequest ==
    /\ requests' = Append(requests, messages)
    /\ round_args' = Append(round_args,
                            [round_num |-> round_num, messages_ref |-> messages_ref])
    /\ api_params' = Append(api_params,
                            ApiParams(BuildSystemContent(conversation_history), tools,
                                      round_num, max_rounds))
    /\ events' = Append(events, [kind |-> "call", round |-> round_num, id |-> ""])

\* client.messages.create(**api_params) returns r
ServiceReturns(r) ==
    /\ pc = "round_start"
    /\ InRange(round_num, max_rounds)
    /\ SendRequest
    /\ calls' = Append(calls, "returned")
    /\ HandleResponse(r)

\* client.messages.create(**api_params) raises an exception with str(e) = e
ServiceRaises(e) ==
    /\ pc = "round_start"
    /\ InRange(round_num, max_rounds)
    /\ SendRequest
    /\ calls' = Append(calls, "raised")
    /\ HandleResponse(CreateErrorResponse(ApiFailedText(e)))

\* max_rounds < 1: the loop body never runs, line 104 with response = None
NoRounds ==
    /\ pc = "round_start"
    /\ ~InRange(round_num, max_rounds)
    /\ Finish(Return(ExtractFinalResponse(response)))
    /\ UNCHANGED << http, max_rounds, tool_manager, tools, conversation_history, query,
                    cancelled, parked, lists, response, requests,
                    calls, responses, executions, round_args, api_params, events >>

\* the call is made with the name and the arguments of the first tool_use block
ToolCallFirstBlock(c, i) ==
    [name |-> c[NextToolUse(c, 1)].name, input |-> c[NextToolUse(c, 1)].input]

\* tool_manager.execute_tool(content_block.name, **content_block.input)
ToolCall(c, i) == [name |-> c[i].name, input |-> c[i].input]

\* a tool call that raised is made again
AfterToolCallRetries(c, i, o) ==
    IF o.raised THEN i ELSE NextToolUse(c, i + 1)

\* the for loop goes on with the next block after the try path and after the
\* except path alike
AfterToolCall(c, i, o) == NextToolUse(c, i + 1)

\* one iteration of the loop of _execute_tools_with_error_handling on a
\* tool_use block: tool_manager.execute_tool returns or raises (o)
ExecuteTool(o) ==
    /\ pc = "execute_tools"
    /\ LET b == response.content[block_idx]
           results == AppendResult(tool_results, b, o)
           nxt == AfterToolCall(response.content, block_idx, o)
       IN  /\ executions' = Append(executions,
                                   [round |-> round_num, id |-> b.id,
                                    name |-> ToolCall(response.content, block_idx).name,
                                    input |-> ToolCall(response.content, block_idx).input,
                                    raised |-> o.raised, value |-> o.value])
           /\ events' = Append(events,
                               [kind |-> "execute", round |-> round_num, id |-> b.id])
           /\ IF o.raised /\ ~ExceptCatches(o)
              THEN lists' = lists /\ Finish(Raise("ToolError"))
              ELSE IF nxt = 0
              THEN ToolsDone(response, lists, next_ref, results)
              ELSE /\ block_idx' = nxt
                   /\ tool_results' = results
                   /\ UNCHANGED << pc, round_num, lists, messages_ref, next_ref,
                                   outcome >>
    /\ UNCHANGED << http, max_rounds, tool_manager, tools, conversation_history, query,
                    cancelled, parked, response, requests, calls,
                    responses, round_args, api_params >>

\* the caller's side raises the cancellation signal; generate_response has no
\* parameter for it and no statement that reads it
Cancel ==
    /\ pc # "done"
    /\ ~cancelled
    /\ cancelled' = TRUE
    /\ events' = Append(events, [kind |-> "cancel", round |-> round_num, id |-> ""])
    /\ UNCHANGED << http, max_rounds, tool_manager, tools, conversation_history, query,
                    pc, round_num, lists, messages_ref, next_ref, response,
                    block_idx, tool_results, outcome, requests, calls, responses,
                    executions, round_args, api_params, parked >>

\* tool_manager.execute_tool neither returns nor raises: the call at lines
\* 206-208 is made without a timeout and generate_response waits in it
ToolNeverReturns ==
    /\ pc = "execute_tools"
    /\ pc' = "blocked"
    /\ events' = Append(events, [kind |-> "execute", round |-> round_num,
                                 id |-> response.content[block_idx].id])
    /\ UNCHANGED << http, max_rounds, tool_manager, tools, conversation_history, query,
                    round_num, lists, messages_ref, next_ref, response, block_idx,
                    tool_results, outcome, requests, calls, responses, executions,
                    round_args, api_params, cancelled, parked >>

Next ==
    \/ \E r \in ResponsesUpTo(MaxBlocks - BlocksIn(responses)) : ServiceReturns(r)
    \/ \E e \in ErrorTexts : ServiceRaises(e)
    \/ NoRounds
    \/ \E o \in ToolOutcomes : ExecuteTool(o)

Spec == Init /\ [][Next]_vars

\* the same program, every tools argument
SpecTools == InitTools /\ [][Next]_vars

\* the same program with a caller that may cancel and a tool manager that
\* may not respond
NextEnvironment ==
    \/ Next
    \/ Cancel
    \/ ToolNeverReturns

SpecEnvironment == Init /\ [][NextEnvironment]_vars

\* ------------------------------------------- two invocations, interleaved
\* the frame of the running invocation: the arguments and the local
\* variables of generate_response and of the methods it calls, with its part
\* of the logs; the list objects live in the heap of the process
Frame ==
    [ max_rounds |-> max_rounds,
      tool_manager |-> tool_manager,
      tools |-> tools,
      conversation_history |-> conversation_history,
      query |-> query,
      pc |-> pc,
      round_num |-> round_num,
      messages_ref |-> messages_ref,
      next_ref |-> next_ref,
      response |-> response,
      block_idx |-> block_idx,
      tool_results |-> tool_results,
      outcome |-> outcome,
      requests |-> requests,
      calls |-> calls,
      responses |-> responses,
      executions |-> executions,
      round_args |-> round_args,
      api_params |-> api_params,
      events |-> events ]

\* the message list is kept on the instance: one binding for both invocations
ResumeSharedMessages(f) ==
    /\ max_rounds' = f.max_rounds
    /\ tool_manager' = f.tool_manager
    /\ tools' = f.tools
    /\ conversation_history' = f.conversation_history
    /\ query' = f.query
    /\ pc' = f.pc
    /\ round_num' = f.round_num
    /\ messages_ref' = messages_ref
    /\ next_ref' = f.next_ref
    /\ response' = f.response
    /\ block_idx' = f.block_idx
    /\ tool_results' = f.tool_results
    /\ outcome' = f.outcome
    /\ requests' = f.requests
    /\ calls' = f.calls
    /\ responses' = f.responses
    /\ executions' = f.executions
    /\ round_args' = f.round_args
    /\ api_params' = f.api_params
    /\ events' = f.events

\* the parked invocation goes on with its own arguments and locals
Resume(f) ==
    /\ max_rounds' = f.max_rounds
    /\ tool_manager' = f.tool_manager
    /\ tools' = f.tools
    /\ conversation_history' = f.conversation_history
    /\ query' = f.query
    /\ pc' = f.pc
    /\ round_num' = f.round_num
    /\ messages_ref' = f.messages_ref
    /\ next_ref' = f.next_ref
    /\ response' = f.response
    /\ block_idx' = f.block_idx
    /\ tool_results' = f.tool_results
    /\ outcome' = f.outcome
    /\ requests' = f.requests
    /\ calls' = f.calls
    /\ responses' = f.responses
    /\ executions' = f.executions
    /\ round_args' = f.round_args
    /\ api_params' = f.api_params
    /\ events' = f.events

\* the round counter is kept from the invocation before
StartFrameCarriesRound(mr, tm, tls, h, q, ref) ==
    [ max_rounds |-> mr, tool_manager |-> tm, tools |-> tls,
      conversation_history |-> h, query |-> q, pc |-> "round_start",
      round_num |-> round_num, messages_ref |-> ref, next_ref |-> 0,
      response |-> NoneResponse, block_idx |-> 0, tool_results |-> <<>>,
      outcome |-> NoOutcome, requests |-> <<>>, calls |-> <<>>,
      responses |-> <<>>, executions |-> <<>>, round_args |-> <<>>,
      api_params |-> <<>>, events |-> <<>> ]

\* the frame of an invocation that has not made a step yet
StartFrame(mr, tm, tls, h, q, ref) ==
    [ max_rounds |-> mr, tool_manager |-> tm, tools |-> tls,
      conversation_history |-> h, query |-> q, pc |-> "round_start",
      round_num |-> 1, messages_ref |-> ref, next_ref |-> 0,
      response |-> NoneResponse, block_idx |-> 0, tool_results |-> <<>>,
      outcome |-> NoOutcome, requests |-> <<>>, calls |-> <<>>,
      responses |-> <<>>, executions |-> <<>>, round_args |-> <<>>,
      api_params |-> <<>>, events |-> <<>> ]

\* the other invocation runs: the two invocations of one AIGenerator
\* interleave at every step
Switch ==
    /\ parked # <<>>
    /\ parked' = << Frame >>
    /\ Resume(parked[1])
    /\ UNCHANGED << lists, cancelled, http >>

OtherQuery == <<"q2">>

\* max_rounds: int = 2, the value of an invocation that does not pass it
DefaultMaxRounds == 2

\* two invocations on one AIGenerator: the first with the query, the tool
\* definitions and no history, the second with another query, a history,
\* no tools and the default max_rounds
InitPair ==
    /\ max_rounds \in {0, MaxRounds}
    /\ tool_manager = TRUE
    /\ tools = ToolDefinitions
    /\ conversation_history = NoHistory
    /\ query = Query
    /\ cancelled = FALSE
    /\ parked = << StartFrame(DefaultMaxRounds, TRUE, [is_none |-> TRUE, list |-> <<>>],
                              [is_none |-> FALSE, text |-> <<"User: hi">>],
                              OtherQuery, 2) >>
    /\ http = <<>>
    /\ pc = "round_start"
    /\ round_num = 1
    /\ lists = << << UserQuery(Query) >>, << UserQuery(OtherQuery) >> >>
    /\ messages_ref = 1
    /\ next_ref = 0
    /\ response = NoneResponse
    /\ block_idx = 0
    /\ tool_results = <<>>
    /\ outcome = NoOutcome
    /\ requests = <<>>
    /\ calls = <<>>
    /\ responses = <<>>
    /\ executions = <<>>
    /\ round_args = <<>>
    /\ api_params = <<>>
    /\ events = <<>>

\* the service answers an invocation about its own query: a tool request
\* with the query as argument, or a text that repeats the query
PairResponses(q) ==
    { Response("tool_use", << ToolUseBlock("tool_1", "search_course_content", q[1]) >>),
      Response("tool_use", << TextBlock(q), ToolUseBlock("tool_2", "get_course_outline", q[1]) >>),
      Response("end_turn", << TextBlock(q) >>) }

NextPair ==
    \/ \E r \in PairResponses(query) : ServiceReturns(r)
    \/ \E e \in ErrorTexts : ServiceRaises(e)
    \/ NoRounds
    \/ \E o \in ToolOutcomes : ExecuteTool(o)
    \/ Switch

SpecPair == InitPair /\ [][NextPair]_vars

\* ------------------------------------- two invocations, one after the other
\* generate_response has returned or raised and is called again with the same
\* arguments: a new frame and a new message list; the first invocation's frame
\* is kept for comparison
CalledAgain ==
    /\ pc = "done"
    /\ parked = <<>>
    /\ parked' = << Frame >>
    /\ Resume(StartFrame(max_rounds, tool_manager, tools, conversation_history,
                         query, Len(lists) + 1))
    /\ lists' = Append(lists, << UserQuery(query) >>)
    /\ UNCHANGED << cancelled, http >>

\* the responses of the service: any answer about the query in the first
\* invocation; in the second, the answer the first invocation got to the call
\* of the same number, while there is one
AgainResponses ==
    IF parked # <<>> /\ Len(calls) < Len(parked[1].calls)
    THEN IF parked[1].calls[Len(calls) + 1] = "returned"
         THEN { parked[1].responses[Len(calls) + 1] }
         ELSE {}
    ELSE PairResponses(query) \cup { ResponseNoContent("tool_use") }

\* the outcomes of execute_tool: any in the first invocation; in the second,
\* the outcome the first invocation got from the execution of the same
\* number, while there is one
AgainOutcomes ==
    IF parked # <<>> /\ Len(executions) < Len(parked[1].executions)
    THEN { o \in ToolOutcomes :
             /\ o.raised = parked[1].executions[Len(executions) + 1].raised
             /\ o.value = parked[1].executions[Len(executions) + 1].value }
    ELSE ToolOutcomes

InitAgain ==
    /\ InitWith({ToolDefinitions}, {NoHistory})
    /\ max_rounds >= 1

NextAgain ==
    \/ \E r \in AgainResponses : ServiceReturns(r)
    \/ \E e \in ErrorTexts : ServiceRaises(e)
    \/ \E o \in AgainOutcomes : ExecuteTool(o)
    \/ CalledAgain

SpecAgain == InitAgain /\ [][NextAgain]_vars

\* --------------------------------- the test API application (conftest.py)
MaxRequests == 2

\* QueryRequest.session_id: Optional[str] = None
NoSessionId == [is_none |-> TRUE, value |-> ""]
SessionIdArgs == { NoSessionId,
                   [is_none |-> FALSE, value |-> ""],
                   [is_none |-> FALSE, value |-> "test_session"] }

\* the bodies of POST /api/query that pass validation
QueryRequests == { [query |-> q, session_id |-> s] :
                      q \in {"First question", "Second question"}, s \in SessionIdArgs }

\* what the calls on rag_system do: return the value or raise Exception(error)
CreateSessionOutcomes == { [raised |-> FALSE, value |-> "test_session_123", error |-> ""],
                           [raised |-> TRUE, value |-> "", error |-> "Session error"] }
RagQueryOutcomes == { [raised |-> FALSE, answer |-> "Test response", sources |-> <<>>, error |-> ""],
                      [raised |-> TRUE, answer |-> "", sources |-> <<>>, error |-> "Query error"] }
AnalyticsOutcomes ==
    { [raised |-> FALSE, total_courses |-> 2,
       course_titles |-> <<"Python Basics", "Web Development">>, error |-> ""],
      [raised |-> TRUE, total_courses |-> 0, course_titles |-> <<>>,
       error |-> "Analytics error"] }
ClearSessionOutcomes == { [raised |-> FALSE, error |-> ""],
                          [raised |-> TRUE, error |-> "Clear error"] }

\* the reply to the client: a 200 with the body, a 500 with a detail, or the
\* exception leaving the endpoint
Ok(b) == [status |-> 200, detail |-> "", escaped |-> FALSE, body |-> <<b>>]
HttpError(e) == [status |-> 500, detail |-> e, escaped |-> FALSE, body |-> <<>>]
Escapes == [status |-> 0, detail |-> "", escaped |-> TRUE, body |-> <<>>]

\* the endpoints have no except clause
EndpointCatchesNothing(o) == FALSE

\* except Exception as e: of the three endpoints
EndpointCatches(o) == o.raised

\* raise HTTPException(status_code=500, detail=str(e))
Failed(o) == IF EndpointCatches(o) THEN HttpError(o.error) ELSE Escapes

\* a session is created for every query
NeedsSessionAlways(s) == TRUE

\* if not session_id: None and the empty string
NeedsSession(s) == s.is_none \/ s.value = ""

\* query_documents: the calls made on rag_system and the reply
QueryDocuments(rq, co, qo) ==
    LET create == NeedsSession(rq.session_id)
        session_id == IF create THEN co.value ELSE rq.session_id.value
    IN  IF create /\ co.raised
        THEN [ create_calls |-> 1, created |-> <<>>, query_calls |-> <<>>,
               raised |-> <<co.error>>, reply |-> Failed(co) ]
        ELSE [ create_calls |-> IF create THEN 1 ELSE 0,
               created |-> IF create THEN <<co.value>> ELSE <<>>,
               query_calls |-> << [query |-> rq.query, session_id |-> session_id] >>,
               raised |-> IF qo.raised THEN <<qo.error>> ELSE <<>>,
               reply |-> IF qo.raised
                         THEN Failed(qo)
                         ELSE Ok([answer |-> qo.answer, sources |-> qo.sources,
                                  session_id |-> session_id]) ]

\* get_course_stats
CourseStatsReply(ao) ==
    IF ao.raised THEN Failed(ao)
    ELSE Ok([total_courses |-> ao.total_courses, course_titles |-> ao.course_titles])

\* clear_session
ClearSessionReply(o) ==
    IF o.raised THEN Failed(o)
    ELSE Ok([status |-> "success", message |-> "Session cleared successfully"])

\* POST /api/query
PostQuery(rq, co, qo) ==
    /\ Len(http) < MaxRequests
    /\ http' = Append(http, [ endpoint |-> "query", request |-> rq,
                              handled |-> QueryDocuments(rq, co, qo) ])
    /\ UNCHANGED << max_rounds, tool_manager, tools, conversation_history, query, pc,
                    round_num, lists, messages_ref, next_ref, response, block_idx,
                    tool_results, outcome, requests, calls, responses, executions,
                    round_args, api_params, events, cancelled, parked >>

\* GET /api/courses
GetCourses(ao) ==
    /\ Len(http) < MaxRequests
    /\ http' = Append(http, [ endpoint |-> "courses",
                              request |-> [query |-> "", session_id |-> NoSessionId],
                              handled |-> [ create_calls |-> 0, created |-> <<>>,
                                            query_calls |-> <<>>,
                                            raised |-> IF ao.raised THEN <<ao.error>> ELSE <<>>,
                                            reply |-> CourseStatsReply(ao) ] ])
    /\ UNCHANGED << max_rounds, tool_manager, tools, conversation_history, query, pc,
                    round_num, lists, messages_ref, next_ref, response, block_idx,
                    tool_results, outcome, requests, calls, responses, executions,
                    round_args, api_params, events, cancelled, parked >>

\* POST /api/session/clear?session_id=s
PostClearSession(s, o) ==
    /\ Len(http) < MaxRequests
    /\ http' = Append(http, [ endpoint |-> "clear",
                              request |-> [query |-> "",
                                           session_id |-> [is_none |-> FALSE, value |-> s]],
                              handled |-> [ create_calls |-> 0, created |-> <<>>,
                                            query_calls |-> <<>>,
                                            raised |-> IF o.raised THEN <<o.error>> ELSE <<>>,
                                            reply |-> ClearSessionReply(o) ] ])
    /\ UNCHANGED << max_rounds, tool_manager, tools, conversation_history, query, pc,
                    round_num, lists, messages_ref, next_ref, response, block_idx,
                    tool_results, outcome, requests, calls, responses, executions,
                    round_args, api_params, events, cancelled, parked >>

\* the application serves requests; no generate_response runs (rag_system is
\* a mock)
InitApi ==
    /\ InitWith({ToolDefinitions}, {NoHistory})
    /\ max_rounds = DefaultMaxRounds
    /\ tool_manager

NextApi ==
    \/ \E rq \in QueryRequests, co \in CreateSessionOutcomes, qo \in RagQueryOutcomes :
          PostQuery(rq, co, qo)
    \/ \E ao \in AnalyticsOutcomes : GetCourses(ao)
    \/ \E s \in {"", "test_session"}, o \in ClearSessionOutcomes : PostClearSession(s, o)

SpecApi == InitApi /\ [][NextApi]_vars

\* the same program, every conversation_history argument
SpecHistory == InitHistory /\ [][Next]_vars

\* ===================================================================
\* Properties
\* ===================================================================
Done == pc = "done"
Returned == outcome.kind = "return"
NumCalls == Len(calls)

\* every response seen so far carries a content list (the documented shape)
ContentPresent == \A i \in 1..Len(responses) : responses[i].has_content

IsToolUse(b) == b.type = "tool_use"
ToolUsesOf(c) == SelectSeq(c, IsToolUse)
ExecutionsOfRound(i) == SelectSeq(executions, LAMBDA e : e.round = i)

\* C1: for max_rounds >= 1, one invocation issues at most max_rounds calls
\* of client.messages.create, whatever the responses and tool outcomes.
C1_CallsAtMostMaxRounds ==
    max_rounds >= 1 => NumCalls <= max_rounds

\* the budget is used up: max_rounds calls were made and tools were executed
C1_Witness ==
    /\ Done /\ max_rounds = MaxRounds /\ NumCalls = max_rounds
    /\ Len(executions) >= max_rounds

\* C2: generate_response never raises and always returns a string, for
\* every response (any stop_reason; content missing, empty or any mix of
\* blocks), every service failure and every tool outcome.
C2_NeverRaises ==
    /\ outcome.kind # "raise"
    /\ Done => Returned

\* C3: if every tool invocation raises, generate_response still returns
\* normally and the answer is a non-empty string (responses carry a content
\* list; a response without one is the case of C2).
C3_AllToolsRaiseStillAnswers ==
    ( /\ Done
      /\ ContentPresent
      /\ \A i \in 1..Len(executions) : executions[i].raised )
    => (Returned /\ outcome.value # <<>>)

\* tools were invoked in every round, each invocation raised, the exchange ended
C3_Witness ==
    /\ Done /\ max_rounds = MaxRounds /\ NumCalls = max_rounds
    /\ \A r \in 1..max_rounds : ExecutionsOfRound(r) # <<>>
    /\ \A i \in 1..Len(executions) : executions[i].raised
    /\ Returned /\ outcome.value # <<>>

\* --- the answer as the properties state it, computed independently of
\* --- ExtractFinalResponse
NonWs(t) == { i \in 1..Len(t) : t[i] # WS }
Least(S) == CHOOSE i \in S : \A j \in S : i <= j
Greatest(S) == CHOOSE i \in S : \A j \in S : i >= j
Trimmed(t) == IF NonWs(t) = {} THEN <<>>
              ELSE SubSeq(t, Least(NonWs(t)), Greatest(NonWs(t)))

RECURSIVE SpaceJoined(_)
SpaceJoined(parts) ==
    IF parts = <<>> THEN <<>>
    ELSE IF Len(parts) = 1 THEN parts[1]
    ELSE SpaceJoined(SubSeq(parts, 1, Len(parts) - 1)) \o <<WS>> \o parts[Len(parts)]

IsNonBlankText(b) == b.type = "text" /\ NonWs(b.text) # {}
IsText(b) == b.type = "text"

\* the non-blank text blocks, trimmed, joined by one space; else the fallback
TextAnswer(c) ==
    LET kept == SelectSeq(c, IsNonBlankText)
    IN  IF kept = <<>> THEN FallbackMessage
        ELSE SpaceJoined([i \in 1..Len(kept) |-> Trimmed(kept[i].text)])

\* the text blocks as they are, joined by one space
RawTextJoined(c) ==
    LET texts == SelectSeq(c, IsText)
    IN  SpaceJoined([i \in 1..Len(texts) |-> texts[i].text])

\* the tool calls (id, name, arguments) of round i are those of the tool_use
\* blocks of response i, one each, in the listed order
ExecutedOncePerBlock(i) ==
    LET ex == ExecutionsOfRound(i)
        tu == ToolUsesOf(responses[i].content)
    IN  /\ Len(ex) = Len(tu)
        /\ \A j \in 1..Len(tu) :
              /\ ex[j].id = tu[j].id
              /\ ex[j].name = tu[j].name
              /\ ex[j].input = tu[j].input

\* C4: with a tool manager, if every round 1..max_rounds returns stop_reason
\* tool_use, the executor runs once per tool_use block of each round (the
\* last included), exactly max_rounds service calls are made (none after the
\* final round's tools), and the answer is built from the text blocks of the
\* last round's response only.
C4_AllRoundsToolUse ==
    ( /\ Done
      /\ tool_manager
      /\ max_rounds >= 1
      /\ ContentPresent
      /\ Len(responses) = max_rounds
      /\ \A i \in 1..max_rounds : responses[i].stop_reason = "tool_use" )
    => /\ \A i \in 1..max_rounds : ExecutedOncePerBlock(i)
       /\ \A j \in 1..Len(executions) : executions[j].round \in 1..max_rounds
       /\ NumCalls = max_rounds
       /\ outcome = Return(TextAnswer(responses[max_rounds].content))

\* every round asked for a tool, the last one with text next to the request
C4_Witness ==
    /\ Done /\ tool_manager /\ max_rounds = MaxRounds
    /\ Len(responses) = max_rounds
    /\ \A i \in 1..max_rounds :
          /\ responses[i].stop_reason = "tool_use"
          /\ ToolUsesOf(responses[i].content) # <<>>
    /\ ExecutionsOfRound(max_rounds) # <<>>
    /\ outcome = Return(<<"a">>)

\* C5: if the response of round k < max_rounds has a stop_reason other than
\* tool_use, no service call and no tool execution follows it: the exchange
\* is over with exactly k service calls.
C5_EarlyTermination ==
    \A k \in 1..Len(responses) :
        (k < max_rounds /\ responses[k].stop_reason # "tool_use")
        => /\ Done
           /\ NumCalls = k
           /\ \A j \in 1..Len(executions) : executions[j].round < k

\* round 1 of several ends the exchange although it lists a tool_use block
C5_Witness ==
    /\ Done /\ tool_manager /\ max_rounds >= 2 /\ NumCalls = 1
    /\ responses[1].stop_reason = "end_turn"
    /\ ToolUsesOf(responses[1].content) # <<>>
    /\ executions = <<>>

\* C6: without a tool manager, a response with stop_reason tool_use ends the
\* exchange after exactly one service call, with no tool executed and the
\* fixed message as the answer, for every max_rounds >= 1 and whatever text
\* the response carries.
C6_NoToolManager ==
    \A k \in 1..Len(responses) :
        (~tool_manager /\ responses[k].stop_reason = "tool_use")
        => /\ Done
           /\ NumCalls = 1
           /\ executions = <<>>
           /\ outcome = Return(NoToolManagerMessage)

\* tools requested next to text, several rounds allowed, no tool manager
C6_Witness ==
    /\ Done /\ ~tool_manager /\ max_rounds >= 2
    /\ responses[1].stop_reason = "tool_use"
    /\ ToolUsesOf(responses[1].content) # <<>>
    /\ SelectSeq(responses[1].content, IsNonBlankText) # <<>>
    /\ outcome = Return(NoToolManagerMessage)

\* a response made of text blocks only, without tool use
TextOnly(r) ==
    /\ r.has_content
    /\ r.content # <<>>
    /\ \A i \in 1..Len(r.content) : r.content[i].type = "text"
    /\ r.stop_reason # "tool_use"

\* text-only, and no text block is empty or whitespace-only
TextOnlyNonBlank(r) ==
    /\ TextOnly(r)
    /\ \A i \in 1..Len(r.content) : NonWs(r.content[i].text) # {}

\* C7 as stated: a text-only round 1 without tool use gives exactly one
\* service call and the answer is the text blocks joined with one space
\* (read here for responses whose text blocks all carry visible text).
C7_AnswerIsJoinedTextBlocks ==
    ( /\ Done /\ Len(responses) >= 1 /\ calls[1] = "returned"
      /\ TextOnlyNonBlank(responses[1]) )
    => /\ NumCalls = 1
       /\ outcome = Return(RawTextJoined(responses[1].content))

\* C7 (amended): a text-only round 1 without tool use gives exactly one
\* service call, and the answer is the text blocks that are not empty or
\* whitespace-only, each stripped of leading and trailing whitespace, joined
\* with one space in their original order; the fallback message if none is left.
C7_AnswerIsJoinedStrippedTextBlocks ==
    (Done /\ Len(responses) >= 1 /\ calls[1] = "returned" /\ TextOnly(responses[1]))
    => /\ NumCalls = 1
       /\ outcome = Return(TextAnswer(responses[1].content))

\* two text blocks, the first with surrounding whitespace, joined in order
C7_Witness ==
    /\ Done /\ calls = <<"returned">> /\ TextOnly(responses[1])
    /\ responses[1].content = << TextBlock(<<WS, "a", WS>>), TextBlock(<<"b">>) >>
    /\ outcome = Return(<<"a", WS, "b">>)

RECURSIVE ToolUseCount(_)
ToolUseCount(i) ==
    IF i = 0 THEN 0 ELSE Len(ToolUsesOf(responses[i].content)) + ToolUseCount(i - 1)

\* rounds 1..k asked for tools, round k+1 answered with text and no tool use
ToolRoundsThenText ==
    /\ Done /\ tool_manager /\ ContentPresent
    /\ Len(responses) >= 2
    /\ \A i \in 1..Len(calls) : calls[i] = "returned"
    /\ \A i \in 1..(Len(responses) - 1) : responses[i].stop_reason = "tool_use"
    /\ TextOnly(responses[Len(responses)])

\* C8 as stated: after k tool rounds and a text response in round k+1, the
\* answer is the text of round k+1, k+1 service calls were made and the tool
\* executions number the tool_use blocks of rounds 1..k (read here for a
\* round k+1 whose text blocks all carry visible text).
C8_ToolRoundsThenTextAnswer ==
    (ToolRoundsThenText /\ TextOnlyNonBlank(responses[Len(responses)]))
    => /\ outcome = Return(RawTextJoined(responses[Len(responses)].content))
       /\ NumCalls = Len(responses)
       /\ Len(executions) = ToolUseCount(Len(responses) - 1)

\* C8 (amended): as C8, the answer being the text of round k+1 with empty and
\* whitespace-only blocks left out and the others stripped and joined with one
\* space (the fallback message if none is left).
C8_ToolRoundsThenStrippedTextAnswer ==
    ToolRoundsThenText
    => /\ outcome = Return(TextAnswer(responses[Len(responses)].content))
       /\ NumCalls = Len(responses)
       /\ Len(executions) = ToolUseCount(Len(responses) - 1)

\* round 1 lists two tool_use blocks, round 2 answers with text
C8_Witness ==
    /\ ToolRoundsThenText
    /\ Len(ToolUsesOf(responses[1].content)) = 2
    /\ Len(executions) = 2
    /\ NumCalls = 2
    /\ outcome = Return(<<"b">>)

\* the tool_result entries closing the message list msgs
TrailingResults(msgs) ==
    IF msgs[Len(msgs)].kind = "tool_results" THEN msgs[Len(msgs)].results ELSE <<>>

\* C9: the request following a tool round carries exactly one tool_result per
\* tool_use block of the preceding assistant turn, in the same order and with
\* the block's id; no request is sent with a result missing.
C9_OneResultPerToolUse ==
    \A i \in 2..Len(requests) :
        LET r == responses[i - 1]
            tu == ToolUsesOf(r.content)
            msgs == requests[i]
            rs == TrailingResults(msgs)
        IN  /\ Len(rs) = Len(tu)
            /\ \A j \in 1..Len(tu) :
                  /\ rs[j].type = "tool_result"
                  /\ rs[j].tool_use_id = tu[j].id
            /\ tu # <<>> =>
                  /\ msgs[Len(msgs)].role = "user"
                  /\ msgs[Len(msgs) - 1].role = "assistant"
                  /\ msgs[Len(msgs) - 1].blocks = r.content

\* two tool requests, one of them failing, answered in the listed order
C9_Witness ==
    /\ Len(requests) >= 2
    /\ Len(requests[2]) = 3
    /\ Len(requests[2][3].results) = 2
    /\ requests[2][3].results[1].tool_use_id = "tool_2"
    /\ requests[2][3].results[2].tool_use_id = "tool_1"
    /\ \E j \in 1..Len(executions) : executions[j].raised

\* --- C10: growth of the message sequence per round
RoundsOver == IF pc = "execute_tools" THEN Len(requests) - 1 ELSE Len(requests)
\* the message sequence once round i is over
MessagesAfter(i) == IF i < Len(requests) THEN requests[i + 1] ELSE messages
LenAfter(i) == Len(MessagesAfter(i))
Growth(i) == LenAfter(i) - Len(requests[i])
ToolsExecutedIn(i) == ExecutionsOfRound(i) # <<>>
\* a round before the last whose tool_use response is handled by the tool manager
Continues(i) ==
    /\ i < max_rounds /\ tool_manager
    /\ responses[i].stop_reason = "tool_use" /\ responses[i].has_content
EmptyToolRound(i) == Continues(i) /\ ToolUsesOf(responses[i].content) = <<>>

\* C10 as stated: the message sequence grows by exactly two entries in every
\* round in which tools were executed and by none in a terminal round without
\* tool use, so the request of round k carries 1 + 2*(earlier tool rounds)
\* messages.
C10_GrowsByTwoPerToolRound ==
    \A i \in 1..RoundsOver :
        /\ ToolsExecutedIn(i) => Growth(i) = 2
        /\ responses[i].stop_reason # "tool_use" => Growth(i) = 0
        /\ Len(requests[i]) = 1 + 2 * Cardinality({ j \in 1..(i - 1) : ToolsExecutedIn(j) })

\* C10 (amended): the message sequence grows by exactly two entries (assistant
\* turn, then tool-result user turn) in every round before the last in which
\* tools were executed, by exactly one entry (the assistant turn alone) in a
\* round before the last whose tool_use response lists no tool_use block, and
\* by none in the round that ends the exchange, with or without tool use; so
\* the request of round k carries 1 + 2*(earlier rounds that executed tools)
\* + (earlier tool_use rounds without a tool_use block) messages.
C10_GrowthPerRound ==
    \A i \in 1..RoundsOver :
        /\ (Continues(i) /\ ToolsExecutedIn(i)) =>
              /\ Growth(i) = 2
              /\ MessagesAfter(i)[Len(requests[i]) + 1].role = "assistant"
              /\ MessagesAfter(i)[Len(requests[i]) + 2].role = "user"
              /\ MessagesAfter(i)[Len(requests[i]) + 2].kind = "tool_results"
        /\ EmptyToolRound(i) =>
              /\ Growth(i) = 1
              /\ MessagesAfter(i)[Len(requests[i]) + 1].role = "assistant"
        /\ ~Continues(i) => Growth(i) = 0
        /\ Len(requests[i]) =
              1 + 2 * Cardinality({ j \in 1..(i - 1) : ToolsExecutedIn(j) })
                + Cardinality({ j \in 1..(i - 1) : EmptyToolRound(j) })

\* a tool round that grew the sequence by two, then a last round whose tools
\* ran without growing it
C10_Witness ==
    /\ Done /\ max_rounds = 2 /\ Len(requests) = 2
    /\ ToolsExecutedIn(1) /\ ToolsExecutedIn(2)
    /\ Len(requests[1]) = 1 /\ Len(requests[2]) = 3 /\ Len(messages) = 3

\* --- C11: failure of the service call
\* round k's call raised: the loop sees a response with stop_reason end_turn
\* and one text block, nothing is raised, no call and no tool follows
ServiceFailureContained(k) ==
    /\ responses[k].stop_reason = "end_turn"
    /\ responses[k].has_content
    /\ Len(responses[k].content) = 1
    /\ responses[k].content[1].type = "text"
    /\ \E e \in ErrorTexts :
          responses[k].content[1].text = <<"API call failed:", WS>> \o e
    /\ Done /\ Returned
    /\ NumCalls = k
    /\ \A j \in 1..Len(executions) : executions[j].round < k

\* C11 as stated: if the service call of round k raises, the round yields a
\* synthesized terminal outcome (stop_reason end, one text block describing
\* the failure), nothing is raised, no further service call and no tool
\* execution follows, and the failure text is returned.
C11_ServiceFailureReturnsFailureText ==
    \A k \in 1..Len(calls) :
        calls[k] = "raised"
        => /\ ServiceFailureContained(k)
           /\ outcome.value = responses[k].content[1].text

\* C11 (amended): as C11, the answer being the failure text stripped of
\* leading and trailing whitespace.
C11_ServiceFailureReturnsStrippedText ==
    \A k \in 1..Len(calls) :
        calls[k] = "raised"
        => /\ ServiceFailureContained(k)
           /\ outcome.value = Trimmed(responses[k].content[1].text)

\* the call of round 2 fails after a tool round; the cause is reported
C11_Witness ==
    /\ Done /\ tool_manager /\ calls = <<"returned", "raised">>
    /\ executions # <<>>
    /\ outcome = Return(<<"API call failed:", WS, "boom">>)

\* --- C12: a tool invocation raises in a round before the last
\* C12: when a tool invocation raises in round k < max_rounds, the remaining
\* tool requests of the round are still executed, the failing request gets a
\* tool_result with content "Tool execution failed: <cause>", and the request
\* of round k+1 is still sent and carries that result.
C12_ToolFailureContinuesRound ==
    \A i \in 1..RoundsOver :
        (i < max_rounds /\ \E p \in 1..Len(executions) :
                              executions[p].round = i /\ executions[p].raised)
        => /\ Len(ExecutionsOfRound(i)) = Len(ToolUsesOf(responses[i].content))
           /\ Done => Len(requests) > i
           /\ \A j \in 1..Len(ExecutionsOfRound(i)) :
                 ExecutionsOfRound(i)[j].raised
                 => LET res == TrailingResults(MessagesAfter(i))[j]
                    IN  /\ res.tool_use_id = ExecutionsOfRound(i)[j].id
                        /\ res.content = <<"Tool execution failed:", WS>>
                                            \o ExecutionsOfRound(i)[j].value

\* the first of two tools failed, the second still ran, round 2 was sent with
\* the failure text as the first result
C12_Witness ==
    /\ Len(requests) = 2 /\ max_rounds = 2
    /\ Len(ExecutionsOfRound(1)) = 2
    /\ ExecutionsOfRound(1)[1].raised /\ ~ExecutionsOfRound(1)[2].raised
    /\ requests[2][3].results[1].content = <<"Tool execution failed:", WS, "boom">>
    /\ requests[2][3].results[2].content = <<"chunk">>

\* C13: the content of every tool_result entry sent to the model is a string,
\* whether the tool returned normally (any value, a non-string included) or
\* raised.
C13_ResultContentIsString ==
    \A i \in 1..Len(requests) :
        \A m \in 1..Len(requests[i]) :
            \A j \in 1..Len(requests[i][m].results) :
                requests[i][m].results[j].content_is_str

\* C14: when a non-empty tools list is passed, every request of every round,
\* the last included, carries that list and tool_choice auto; when tools is
\* None or empty, no request carries a tools or a tool_choice field
C14_ToolsInEveryRequest ==
    /\ Len(api_params) = Len(requests)
    /\ \A k \in 1..Len(api_params) :
          IF ~tools.is_none /\ Len(tools.list) > 0
          THEN /\ api_params[k].has_tools
               /\ api_params[k].tools = tools.list
               /\ api_params[k].tool_choice = "auto"
          ELSE /\ ~api_params[k].has_tools
               /\ api_params[k].tools = <<>>
               /\ api_params[k].tool_choice = ""

C14_Witness ==
    /\ Done /\ Returned
    /\ max_rounds = 2
    /\ Len(api_params) = 2
    /\ round_args[2].round_num = max_rounds
    /\ tools = ToolDefinitions
    /\ api_params[2].has_tools
    /\ api_params[2].tools = <<"search_course_content", "get_course_outline">>
    /\ api_params[2].tool_choice = "auto"

\* the system text of request k says "Round k of max_rounds", with the
\* final-round sentence exactly in the last round
RoundAnnotated(k) ==
    /\ api_params[k].system.content = <<"SYSTEM_PROMPT">>
    /\ api_params[k].system.annotated
    /\ api_params[k].system.round = k
    /\ api_params[k].system.of = max_rounds
    /\ api_params[k].system.final <=> (k = max_rounds)

\* C15 as stated: for every max_rounds >= 1 the system text of round k's
\* request carries the round progress, and the final-round sentence iff
\* k = max_rounds
C15_EveryRequestAnnotated ==
    \A k \in 1..Len(api_params) : max_rounds >= 1 => RoundAnnotated(k)

\* C15, amended: so it is for max_rounds >= 2; with max_rounds = 1 the system
\* text is sent as it is, without round progress or final-round sentence
C15_AnnotatedWhenSeveralRounds ==
    \A k \in 1..Len(api_params) :
        /\ max_rounds >= 2 => RoundAnnotated(k)
        /\ max_rounds = 1 =>
              /\ api_params[k].system.content = <<"SYSTEM_PROMPT">>
              /\ ~api_params[k].system.annotated
              /\ ~api_params[k].system.final

C15_Witness ==
    /\ Done /\ Returned
    /\ max_rounds = 2
    /\ Len(api_params) = 2
    /\ api_params[1].system.annotated /\ api_params[1].system.round = 1
    /\ ~api_params[1].system.final
    /\ api_params[2].system.annotated /\ api_params[2].system.round = 2
    /\ api_params[2].system.final

\* C16: the list object handed to round k (to its service call and then to
\* _prepare_next_round) keeps the length and the entries it had when it was
\* handed over, and the extended history is another list object
C16_GivenSequenceNotMutated ==
    /\ \A k \in 1..Len(round_args) :
          /\ lists[round_args[k].messages_ref] = requests[k]
          /\ \A j \in 1..Len(round_args) :
                j # k => round_args[j].messages_ref # round_args[k].messages_ref
    /\ next_ref # messages_ref

C16_Witness ==
    /\ Done /\ Returned
    /\ Len(round_args) = 2
    /\ round_args[1].messages_ref = 1
    /\ round_args[2].messages_ref = 2
    /\ lists[1] = << UserQuery(<<"q">>) >>
    /\ Len(lists[2]) = 3
    /\ lists[2][1] = lists[1][1]
    /\ lists[2][2].role = "assistant"
    /\ lists[2][3].role = "user"

\* C17: the messages sent in round k+1 are the messages sent in round k,
\* then one assistant turn with round k's response content, then one user
\* turn with round k's tool results, and the first message is the query
C17_AppendOnlyOrderedHistory ==
    /\ \A k \in 1..Len(requests) :
          requests[k][1] = [role |-> "user", kind |-> "query", text |-> <<"q">>,
                            has_content |-> TRUE, blocks |-> <<>>, results |-> <<>>]
    /\ \A k \in 1..(Len(requests) - 1) :
          LET prev == requests[k]
              nxt == requests[k + 1]
          IN  /\ Len(nxt) = Len(prev) + 2
              /\ SubSeq(nxt, 1, Len(prev)) = prev
              /\ nxt[Len(prev) + 1].role = "assistant"
              /\ nxt[Len(prev) + 1].blocks = responses[k].content
              /\ nxt[Len(prev) + 2].role = "user"
              /\ nxt[Len(prev) + 2].kind = "tool_results"
              /\ Len(nxt[Len(prev) + 2].results) = Len(ExecutionsOfRound(k))

\* C18: the round counter is 1 at the first service call, one more at each
\* following call, never decreases from one service call or tool execution
\* to the next, and never exceeds max_rounds
C18_RoundCounter ==
    /\ \A k \in 1..Len(round_args) :
          /\ round_args[k].round_num = k
          /\ round_args[k].round_num <= max_rounds
    /\ \A p \in 1..(Len(events) - 1) : events[p].round <= events[p + 1].round
    /\ max_rounds >= 1 => (round_num >= 1 /\ round_num <= max_rounds)

C18_Witness ==
    /\ Done /\ Returned
    /\ max_rounds = 2
    /\ Len(round_args) = 2
    /\ round_args[1].round_num = 1
    /\ round_args[2].round_num = 2
    /\ round_num = 2
    /\ Len(ExecutionsOfRound(1)) > 0
    /\ Len(ExecutionsOfRound(2)) > 0

\* the position of round k's service call and of its tool executions in the
\* order of events
CallPos(k) ==
    CHOOSE q \in 1..Len(events) : events[q].kind = "call" /\ events[q].round = k
ExecPos(k) ==
    { q \in 1..Len(events) : events[q].kind = "execute" /\ events[q].round = k }

\* C19: when the service call of round k+1 is issued, every tool request of
\* round k's response has been executed (returned or raised), after round
\* k's call and before this one, and its result is in the messages sent
C19_RoundsSequential ==
    \A k \in 1..(Len(requests) - 1) :
        LET tu == ToolUsesOf(responses[k].content)
            ex == ExecutionsOfRound(k)
            rs == TrailingResults(requests[k + 1])
        IN  /\ Cardinality(ExecPos(k)) = Len(tu)
            /\ \A q \in ExecPos(k) : CallPos(k) < q /\ q < CallPos(k + 1)
            /\ Len(ex) = Len(tu)
            /\ Len(rs) = Len(tu)
            /\ \A j \in 1..Len(tu) :
                  /\ ex[j].id = tu[j].id
                  /\ rs[j].tool_use_id = tu[j].id
                  /\ rs[j].content = IF ex[j].raised
                                     THEN <<"Tool execution failed:", " ">> \o ex[j].value
                                     ELSE ex[j].value

C19_Witness ==
    /\ Done /\ Returned
    /\ Len(requests) = 2
    /\ Len(ToolUsesOf(responses[1].content)) = 2
    /\ events[1].kind = "call" /\ events[2].kind = "execute"
    /\ events[3].kind = "execute" /\ events[4].kind = "call"
    /\ executions[1].raised /\ ~executions[2].raised
    /\ Len(TrailingResults(requests[2])) = 2

\* C20: the executions of a round are made in the order of the tool_use
\* blocks of its response, each with the name and the arguments of its own
\* block, and all executions of a round precede those of the next round
C20_ExecutionOrder ==
    /\ \A k \in 1..Len(responses) :
          LET tu == ToolUsesOf(responses[k].content)
              ex == ExecutionsOfRound(k)
          IN  /\ Len(ex) <= Len(tu)
              /\ \A j \in 1..Len(ex) :
                    /\ ex[j].id = tu[j].id
                    /\ ex[j].name = tu[j].name
                    /\ ex[j].input = tu[j].input
    /\ \A p \in 1..(Len(executions) - 1) :
          executions[p].round <= executions[p + 1].round

C20_Witness ==
    /\ Done /\ Returned
    /\ Len(executions) = 3
    /\ executions[1].round = 1 /\ executions[1].name = "search_course_content"
    /\ executions[1].input = "query"
    /\ executions[2].round = 1 /\ executions[2].name = "get_course_outline"
    /\ executions[2].input = "course_name"
    /\ executions[3].round = 2
    /\ responses[1].content[1].type = "tool_use"
    /\ responses[1].content[1].name = "search_course_content"
    /\ responses[1].content[2].name = "get_course_outline"

\* the last round's response asks for tools and has no text block
FinalRoundToolsNoText ==
    /\ tool_manager
    /\ max_rounds >= 1
    /\ Len(responses) = max_rounds
    /\ responses[max_rounds].stop_reason = "tool_use"
    /\ responses[max_rounds].has_content
    /\ ToolUsesOf(responses[max_rounds].content) # <<>>
    /\ SelectSeq(responses[max_rounds].content, IsText) = <<>>

\* C21: if the response of the last round (round_num = max_rounds) asks for
\* tools and has no text block, each requested tool is executed exactly once,
\* no service call follows, and the answer is the fixed fallback message
C21_FinalRoundToolsNoTextFallback ==
    (Done /\ FinalRoundToolsNoText)
    => /\ ExecutedOncePerBlock(max_rounds)
       /\ NumCalls = max_rounds
       /\ events[Len(events)].kind = "execute"
       /\ outcome = Return(<<"I wasn't able to generate a proper response. Please try rephrasing your question.">>)

C21_Witness ==
    /\ Done /\ FinalRoundToolsNoText
    /\ max_rounds = 2
    /\ Len(ToolUsesOf(responses[2].content)) = 2
    /\ Len(ExecutionsOfRound(2)) = 2
    /\ ExecutionsOfRound(2)[1].raised
    /\ outcome.kind = "return"

\* the response of round k is a content list with no text block and no
\* tool request
EmptyOutcome(k) ==
    /\ responses[k].has_content
    /\ SelectSeq(responses[k].content, IsText) = <<>>
    /\ ToolUsesOf(responses[k].content) = <<>>

\* C22: a round whose response has zero text blocks and zero tool requests
\* ends the exchange at once whatever its stop_reason: the answer is the
\* fallback message, no service call follows and the message history is
\* the one the round was sent (stated for an exchange with a tool manager)
C22_EmptyOutcomeIsTerminal ==
    \A k \in 1..Len(responses) :
        (tool_manager /\ EmptyOutcome(k))
        => /\ Done
           /\ NumCalls = k
           /\ outcome = Return(<<"I wasn't able to generate a proper response. Please try rephrasing your question.">>)
           /\ messages = requests[k]

\* C23: when the executor fails on a requested tool (execute_tool raises, as
\* for a tool that is not registered), no service call is issued after that
\* round's call and the exchange ends with a fixed message (stated for the
\* rounds before the last, after which a service call can follow)
C23_UnknownToolTerminates ==
    \A p \in 1..Len(executions) :
        (executions[p].raised /\ executions[p].round < max_rounds)
        => /\ NumCalls = executions[p].round
           /\ Done => outcome \in
                 { Return(<<"I cannot execute tools without a tool manager. Please try rephrasing your question.">>),
                   Return(<<"I wasn't able to generate a proper response. Please try rephrasing your question.">>) }

\* the response of round k has no content (None or an empty list) or a
\* stop_reason that is neither end_turn nor tool_use
Malformed(k) ==
    \/ ~responses[k].has_content
    \/ responses[k].content = <<>>
    \/ responses[k].stop_reason \notin {"end_turn", "tool_use"}

\* C24: a malformed response is recovered by the fallback message: nothing is
\* raised to the caller, and the exchange returns the fixed fallback string
\* (stated for an exchange with a tool manager)
C24_MalformedRecoveredByFallback ==
    \A k \in 1..Len(responses) :
        (tool_manager /\ Malformed(k))
        => /\ outcome.kind # "raise"
           /\ (Done /\ k = Len(responses)) =>
                 outcome = Return(<<"I wasn't able to generate a proper response. Please try rephrasing your question.">>)

\* C25: whatever max_rounds and the responses, generate_response ends once
\* every call has returned or raised: until it has ended a service call or a
\* tool call is due, every step is one of these calls, and there are at most
\* max_rounds service calls and one execution per requested tool
C25_BoundedSteps ==
    /\ \/ Done
       \/ ENABLED NoRounds
       \/ \E e \in ErrorTexts : ENABLED ServiceRaises(e)
       \/ \E o \in ToolOutcomes : ENABLED ExecuteTool(o)
    /\ NumCalls <= (IF max_rounds >= 0 THEN max_rounds ELSE 0)
    /\ \A k \in 1..Len(responses) :
          Len(ExecutionsOfRound(k)) <= Len(ToolUsesOf(responses[k].content))
    /\ Len(events) = NumCalls + Len(executions)

C25_Witness ==
    /\ Done /\ ~ENABLED Next
    /\ max_rounds = 2
    /\ NumCalls = 2
    /\ Len(ExecutionsOfRound(1)) = 2
    /\ Len(ExecutionsOfRound(2)) = 1
    /\ Len(events) = 5

\* C30: with max_rounds <= 0 generate_response makes no service call,
\* executes no tool, does not raise and returns the fallback message
C30_NoRoundsFallback ==
    max_rounds <= 0
    => /\ NumCalls = 0 /\ requests = <<>>
       /\ executions = <<>>
       /\ outcome.kind # "raise"
       /\ Done => outcome = Return(<<"I wasn't able to generate a proper response. Please try rephrasing your question.">>)
       /\ Done \/ ENABLED NoRounds

C30_Witness ==
    /\ Done
    /\ max_rounds = -1
    /\ tool_manager
    /\ events = <<>>
    /\ outcome = Return(<<"I wasn't able to generate a proper response. Please try rephrasing your question.">>)

\* the tokens of sub are in s, next to each other and in order
Contains(s, sub) ==
    \E p \in 0..(Len(s) - Len(sub)) : SubSeq(s, p + 1, p + Len(sub)) = sub

\* the history is in no part of message m
HistoryNotIn(m) ==
    /\ ~Contains(m.text, conversation_history.text)
    /\ \A j \in 1..Len(m.blocks) : ~Contains(m.blocks[j].text, conversation_history.text)
    /\ \A j \in 1..Len(m.results) : ~Contains(m.results[j].content, conversation_history.text)

\* C29: when a non-empty conversation history is passed, the system text of
\* every request, in round 1 and in every later round, holds the history as
\* it was passed, and no message of any request holds it
C29_HistoryInSystemTextOnly ==
    (~conversation_history.is_none /\ Len(conversation_history.text) > 0)
    => \A k \in 1..Len(api_params) :
          /\ api_params[k].system.content =
                <<"SYSTEM_PROMPT", "\n\nPrevious conversation:\n">>
                   \o conversation_history.text
          /\ \A m \in 1..Len(requests[k]) : HistoryNotIn(requests[k][m])

C29_Witness ==
    /\ Done /\ Returned
    /\ conversation_history.text = <<" ", "User: hi", " ">>
    /\ Len(api_params) = 2
    /\ Len(requests[2]) = 3
    /\ api_params[1].system.content =
          <<"SYSTEM_PROMPT", "\n\nPrevious conversation:\n", " ", "User: hi", " ">>
    /\ api_params[2].system.content = api_params[1].system.content

\* C26: once the cancellation signal is raised, after the first service call,
\* no service call is started any more (a tool call under way may complete)
C26_NoRoundAfterCancellation ==
    \A p \in 2..Len(events) : \A q \in p..Len(events) :
        events[p].kind = "cancel" => events[q].kind # "call"

\* C27: no call is waited for without bound: a service call or a tool call
\* that does not respond is ended by a timeout and handled as a failure, so
\* generate_response is never left waiting in a call
C27_CallsBoundedByTimeout == pc # "blocked"

\* the messages of round k+1 as the running invocation builds them alone
\* from its own logs: round k's messages, its response, its tool results
OwnHistoryStep(k) ==
    LET prev == requests[k]
        nxt == requests[k + 1]
        ex == ExecutionsOfRound(k)
    IN  /\ Len(nxt) = Len(prev) + (IF ex = <<>> THEN 1 ELSE 2)
        /\ SubSeq(nxt, 1, Len(prev)) = prev
        /\ nxt[Len(prev) + 1].role = "assistant"
        /\ nxt[Len(prev) + 1].blocks = responses[k].content
        /\ ex # <<>> =>
              /\ nxt[Len(prev) + 2].role = "user"
              /\ Len(nxt[Len(prev) + 2].results) = Len(ex)
              /\ \A j \in 1..Len(ex) :
                    /\ nxt[Len(prev) + 2].results[j].tool_use_id = ex[j].id
                    /\ nxt[Len(prev) + 2].results[j].content =
                          IF ex[j].raised
                          THEN <<"Tool execution failed:", " ">> \o ex[j].value
                          ELSE ex[j].value

\* the system text of round k built from the invocation's own arguments
OwnSystemText(k) ==
    /\ api_params[k].system.content =
          IF ~conversation_history.is_none /\ Len(conversation_history.text) > 0
          THEN <<"SYSTEM_PROMPT", "\n\nPrevious conversation:\n">>
                  \o conversation_history.text
          ELSE <<"SYSTEM_PROMPT">>
    /\ api_params[k].system.annotated <=> (max_rounds > 1)
    /\ max_rounds > 1 =>
          /\ api_params[k].system.round = k
          /\ api_params[k].system.of = max_rounds
    /\ api_params[k].system.final <=> (max_rounds > 1 /\ k = max_rounds)
    /\ api_params[k].has_tools <=> (~tools.is_none /\ Len(tools.list) > 0)
    /\ api_params[k].has_tools => api_params[k].tools = tools.list

\* the answer of the run alone on the invocation's own responses
OwnAnswer ==
    IF responses = <<>>
    THEN <<"I wasn't able to generate a proper response. Please try rephrasing your question.">>
    ELSE IF responses[Len(responses)].stop_reason = "tool_use" /\ ~tool_manager
    THEN <<"I cannot execute tools without a tool manager. Please try rephrasing your question.">>
    ELSE TextAnswer(responses[Len(responses)].content)

\* C28: with two invocations on one AIGenerator interleaved in any order,
\* the running one's message history, round counter and system text hold
\* only its own query, history, responses and tool results, and its answer
\* is the one of the run alone on the same responses (at every step, for
\* whichever invocation runs)
C28_ExchangeStatePrivate ==
    /\ \A k \in 1..Len(requests) :
          /\ requests[k][1] = [role |-> "user", kind |-> "query", text |-> query,
                               has_content |-> TRUE, blocks |-> <<>>, results |-> <<>>]
          /\ lists[round_args[k].messages_ref] = requests[k]
          /\ round_args[k].round_num = k
          /\ OwnSystemText(k)
    /\ \A k \in 1..(Len(requests) - 1) : OwnHistoryStep(k)
    /\ messages[1].text = query
    /\ requests = <<>> => Len(messages) = 1
    /\ (Done /\ Returned) => outcome.value = OwnAnswer

\* both invocations have ended after two rounds each, interleaved
C28_Witness ==
    /\ parked # <<>>
    /\ Done /\ Returned
    /\ parked[1].pc = "done"
    /\ Len(requests) = 2 /\ Len(parked[1].requests) = 2
    /\ query # parked[1].query
    /\ Len(lists) = 4
    /\ lists[3][1].text # lists[4][1].text
    /\ outcome.value = query
    /\ parked[1].outcome.value = parked[1].query

\* C31: the messages of every request start with a user turn, alternate
\* between user and assistant, and end with a user turn, also after a
\* tool_use response without a tool_use block
C31_RolesAlternate ==
    \A k \in 1..Len(requests) :
        /\ requests[k][1].role = "user"
        /\ requests[k][Len(requests[k])].role = "user"
        /\ \A m \in 1..(Len(requests[k]) - 1) :
              requests[k][m].role # requests[k][m + 1].role

\* C32: the answer comes from the last response alone or is a fixed message:
\* the content of an earlier round that asked for tools stays in the message
\* history and the answer is not made of it, and no tool output is in the
\* answer
AnswerFromLastResponseOnly ==
    (Done /\ Returned /\ responses # <<>>)
    => /\ outcome.value \in
             { TextAnswer(responses[Len(responses)].content),
               <<"I cannot execute tools without a tool manager. Please try rephrasing your question.">> }
       /\ \A k \in 1..(Len(requests) - 1) :
             requests[k + 1][Len(requests[k]) + 1].blocks = responses[k].content
       /\ \A j \in 1..Len(executions) :
             ~executions[j].raised => ~Contains(outcome.value, executions[j].value)
       /\ ~Contains(outcome.value, <<"Tool execution failed:">>)

\* C32: at every step of an exchange the answer comes from the last response alone
\* and holds no tool output
C32_AnswerFromLastResponseOnly == []AnswerFromLastResponseOnly

\* round 1 says " a " and asks for a tool, round 2 answers "b"
C32_Witness ==
    /\ Done /\ Returned
    /\ Len(responses) = 2
    /\ Len(responses[1].content) = 2
    /\ Len(executions) = 1
    /\ Len(requests) = 2
    /\ responses[1].content[1].text = <<" ", "a", " ">>
    /\ responses[1].content[2].type = "tool_use"
    /\ executions[1].value = <<"chunk">>
    /\ responses[2].content = << [type |-> "text", text |-> <<"b">>, id |-> "", name |-> "", input |-> ""] >>
    /\ requests[2][2].blocks[1].text = <<" ", "a", " ">>
    /\ outcome.value = <<"b">>

\* the answer is extracted from the last response
Extracted ==
    /\ responses # <<>>
    /\ responses[Len(responses)].stop_reason = "tool_use" => tool_manager

\* the text blocks of the last response
ExtractedTexts ==
    IF responses # <<>> THEN SelectSeq(responses[Len(responses)].content, IsText)
    ELSE <<>>

\* C33: text extraction skips empty and whitespace-only text blocks and trims
\* the others: a final response whose text blocks are all blank gives the
\* fallback message, and every answer returned is non-empty and has no
\* leading or trailing whitespace
AnswerTrimmedNonEmpty ==
    (Done /\ Returned)
    => /\ outcome.value # <<>>
       /\ outcome.value[1] # WS
       /\ outcome.value[Len(outcome.value)] # WS
       /\ Extracted
          => /\ (\A i \in 1..Len(ExtractedTexts) : NonWs(ExtractedTexts[i].text) = {})
                   => outcome.value = FallbackMessage
             /\ \A i \in 1..Len(ExtractedTexts) :
                   NonWs(ExtractedTexts[i].text) # {}
                   => Contains(outcome.value, Trimmed(ExtractedTexts[i].text))

\* C33: every answer returned is the trimmed, non-empty text of the extraction
C33_AnswerTrimmedNonEmpty == []AnswerTrimmedNonEmpty

\* the final response holds a whitespace-only and an empty text block
C33_Witness ==
    /\ Done /\ Returned
    /\ Len(responses) = 1
    /\ responses[1].stop_reason = "end_turn"
    /\ responses[1].content = << TextBlock(<<WS>>), TextBlock(<<>>) >>
    /\ outcome.value = FallbackMessage

\* a whitespace-only block next to a padded one: only the latter is returned
C33_WitnessTrimmed ==
    /\ Done /\ Returned
    /\ Len(responses) = 1
    /\ responses[1].content = << TextBlock(<<WS>>), TextBlock(<<WS, "a", WS>>) >>
    /\ outcome.value = <<"a">>

\* C34: a tool is executed only for a response with stop_reason tool_use and
\* only with a tool manager; a response with another stop_reason ends the
\* exchange and none of its tool_use blocks is executed
ToolsOnlyOnToolUseStop ==
    /\ \A j \in 1..Len(executions) :
          /\ tool_manager
          /\ executions[j].round \in 1..Len(responses)
          /\ responses[executions[j].round].stop_reason = "tool_use"
    /\ \A k \in 1..Len(responses) :
          responses[k].stop_reason # "tool_use"
          => /\ Done
             /\ k = Len(responses)
             /\ Len(requests) = k

\* C34: at every step, tools were executed only on stop_reason tool_use with a
\* tool manager, and another stop_reason has ended the exchange
C34_ToolsOnlyOnToolUseStop == []ToolsOnlyOnToolUseStop

\* round 1's tool is executed; round 2 stops with max_tokens and lists a
\* tool_use block, which is not executed
C34_Witness ==
    /\ Done /\ Returned /\ tool_manager
    /\ Len(responses) = 2
    /\ responses[1].stop_reason = "tool_use"
    /\ responses[2].stop_reason = "max_tokens"
    /\ ToolUsesOf(responses[2].content) # <<>>
    /\ Len(executions) = 1
    /\ executions[1].round = 1

\* C35: no tool request is executed more than once: the executions of a round
\* are of pairwise different tool_use blocks of that round's response, a call
\* that raised is not followed by another call of the same block, and no
\* execution of a round is made once a later round has begun
ExecutedAtMostOnce ==
    /\ \A k \in 1..Len(responses) :
          LET ex == ExecutionsOfRound(k)
              tu == ToolUsesOf(responses[k].content)
          IN  /\ Len(ex) <= Len(tu)
              /\ \A i \in 1..Len(ex) : \A j \in (i + 1)..Len(ex) : ex[i].id # ex[j].id
              /\ \A i \in 1..Len(ex) : \E j \in 1..Len(tu) : tu[j].id = ex[i].id
              /\ (Done /\ Returned /\ tool_manager /\ responses[k].stop_reason = "tool_use")
                    => Len(ex) = Len(tu)
    /\ \A p \in 1..(Len(events) - 1) : events[p].round <= events[p + 1].round

\* C35: at every step, no tool request has been executed more than once
C35_ExecutedAtMostOnce == []ExecutedAtMostOnce

\* round 1's first tool raised and its second returned, round 2 lists the
\* first block again: three executions, two in round 1 and one in round 2
C35_Witness ==
    /\ Done /\ Returned
    /\ Len(responses) = 2
    /\ Len(ToolUsesOf(responses[1].content)) = 2
    /\ ToolUsesOf(responses[2].content) = << ToolUsesOf(responses[1].content)[1] >>
    /\ Len(executions) = 3
    /\ executions[1].raised /\ ~executions[2].raised
    /\ executions[2].round = 1 /\ executions[3].round = 2
    /\ executions[3].id = executions[1].id

Shorter(a, b) == IF a <= b THEN a ELSE b

\* the second invocation has the arguments of the first, and the service and
\* the tool manager answer its k-th call as they answered the first's
SameArgumentsAndAnswers ==
    /\ parked # <<>>
    /\ max_rounds = parked[1].max_rounds
    /\ tool_manager = parked[1].tool_manager
    /\ tools = parked[1].tools
    /\ conversation_history = parked[1].conversation_history
    /\ query = parked[1].query
    /\ \A k \in 1..Shorter(Len(calls), Len(parked[1].calls)) :
          /\ calls[k] = parked[1].calls[k]
          /\ responses[k] = parked[1].responses[k]
    /\ \A j \in 1..Shorter(Len(executions), Len(parked[1].executions)) :
          /\ executions[j].raised = parked[1].executions[j].raised
          /\ executions[j].value = parked[1].executions[j].value

C36_Diverged ==
    /\ Done /\ parked # <<>>
    /\ ~SameArgumentsAndAnswers
    /\ outcome # parked[1].outcome

\* C37: POST /api/query without a session id (none or an empty one) creates
\* exactly one session and answers with its id; with a session id it creates
\* none and answers with the id given; either way rag_system.query is called
\* exactly once, with the query and that session id (as long as the calls on
\* rag_system return: their failures are C38's)
C37_QuerySessionHandling ==
    \A k \in 1..Len(http) :
        (http[k].endpoint = "query" /\ http[k].handled.raised = <<>>)
        => LET rq == http[k].request
               h == http[k].handled
           IN  /\ h.reply.status = 200
               /\ Len(h.query_calls) = 1
               /\ h.query_calls[1].query = rq.query
               /\ h.query_calls[1].session_id = h.reply.body[1].session_id
               /\ IF rq.session_id.is_none \/ rq.session_id.value = ""
                  THEN /\ h.create_calls = 1
                       /\ h.created = << h.reply.body[1].session_id >>
                  ELSE /\ h.create_calls = 0
                       /\ h.created = <<>>
                       /\ h.reply.body[1].session_id = rq.session_id.value

\* a query without a session id, then one with the session id "test_session"
C37_Witness ==
    /\ Len(http) = 2
    /\ http[1].endpoint = "query" /\ http[2].endpoint = "query"
    /\ http[1].request.session_id.is_none
    /\ http[1].handled.created = <<"test_session_123">>
    /\ http[1].handled.reply.body[1].session_id = "test_session_123"
    /\ http[2].request.session_id.value = "test_session"
    /\ http[2].handled.created = <<>>
    /\ http[2].handled.reply.status = 200
    /\ http[2].handled.query_calls =
          << [query |-> http[2].request.query, session_id |-> "test_session"] >>

\* C38: an exception raised by the call an endpoint makes on rag_system
\* (query, courses, session clear) is answered with HTTP 500 and the
\* exception's message as detail; it never leaves the endpoint
C38_ExceptionBecomes500 ==
    \A k \in 1..Len(http) :
        /\ ~http[k].handled.reply.escaped
        /\ http[k].handled.raised # <<>>
           => /\ http[k].handled.reply.status = 500
              /\ http[k].handled.reply.detail = http[k].handled.raised[1]

\* the analytics call and the session clear call raise
C38_Witness ==
    /\ Len(http) = 2
    /\ http[1].endpoint = "courses" /\ http[2].endpoint = "clear"
    /\ http[1].handled.raised = <<"Analytics error">>
    /\ http[1].handled.reply.status = 500
    /\ http[1].handled.reply.detail = "Analytics error"
    /\ http[2].handled.raised = <<"Clear error">>
    /\ http[2].handled.reply.status = 500
    /\ http[2].handled.reply.detail = "Clear error"

\* the query call raises after a session was created
C38_WitnessQuery ==
    /\ Len(http) >= 1
    /\ http[1].endpoint = "query"
    /\ http[1].handled.created = <<"test_session_123">>
    /\ http[1].handled.raised = <<"Query error">>
    /\ http[1].handled.reply.status = 500
    /\ http[1].handled.reply.detail = "Query error"
====
